---------------------------- MODULE Spec2Model ----------------------------
(***************************************************************************)
(* Occupancy grid generation (occupancy_grid_generation.ipynb): the ray     *)
(* marching range scanner get_ranges, the inverse sensor model              *)
(* inverse_scanner, the log-odds update of the main simulation loop and the *)
(* scripted robot motion.                                                   *)
(*                                                                          *)
(* Numbers.  Lengths and cell indices are integers (every pose of the       *)
(* notebook is an integer: x_0 = [30, 30, 0] moved by +-3).  Angles are     *)
(* fixed-point integers in units of 1/Scale rad; cos and sin values are     *)
(* fixed-point integers scaled by Scale.  A range r = sqrt(d2) is kept as   *)
(* its square d2, and compared with a threshold c by comparing 4*d2 with    *)
(* (2c)^2, which is exact.  An inverse-model probability is kept in tenths  *)
(* (0.3 -> 3, 0.5 -> 5, 0.7 -> 7, the untouched 0.0 -> 0).  A log-odds      *)
(* value is kept in units of ln(7/3) = logit(0.7) = -logit(0.3), or NegInf  *)
(* for log(0); a belief is the exact fraction <<num, den>>.  Arithmetic on  *)
(* log-odds and beliefs is exact: float64 rounding is not modelled.         *)
(***************************************************************************)
EXTENDS Integers, Sequences, FiniteSets, TLC

VARIABLES
    M, N,          \* grid shape (rows = x axis, columns = y axis)
    true_map,      \* the set of obstacle cells <<i, j>> (true_map[i, j] == 1)
    meas_phi,      \* the beam bearings, a sequence of angles
    rmax,          \* maximum beam range
    alpha,         \* width of an obstacle
    beta,          \* angular width of a beam
    x,             \* the current pose <<x, y, theta>> (x[:, t])
    u_i,           \* index of the current motion command
    t,             \* the time step
    meas_r,        \* the last range scan
    invmod,        \* the last inverse-model grid
    invmods,       \* every inverse-model grid so far (the list invmods)
    L,             \* the log-odds grid
    m,             \* the belief grid
    fused,         \* how many times the log-odds update ran
    T_MAX,         \* number of time steps
    pc             \* where the program is

vars == <<M, N, true_map, meas_phi, rmax, alpha, beta, x, u_i, t,
          meas_r, invmod, invmods, L, m, fused, T_MAX, pc>>

config == <<M, N, true_map, meas_phi, rmax, alpha, beta>>

-----------------------------------------------------------------------------
(* Bounds of the model. *)

GridSize == 7      \* side of the square grids of the bounded scenarios
MaxRange == 3      \* largest rmax of the bounded scenarios
MaxFuse == 5       \* repeated fusions of one scan (stationary sensor)
SimSteps == 6      \* T_MAX of the bounded simulation

-----------------------------------------------------------------------------
(* Fixed-point arithmetic: math.pi, math.cos, math.sin, math.atan2, round. *)

Scale == 10000
Pi == 31416
TwoPi == 2 * Pi
HalfPi == Pi \div 2
QuarterPi == Pi \div 4

Abs(a) == IF a < 0 THEN -a ELSE a

Min(a, b) == IF a < b THEN a ELSE b

\* a / b rounded to the nearest integer, b > 0
RDiv(a, b) == (2 * a + b) \div (2 * b)

\* cos on [0, pi/4]: 1 - x^2/2 + x^4/24 - x^6/720
CosQ(a) ==
    LET x2 == RDiv(a * a, Scale)
        x4 == RDiv(x2 * x2, Scale)
        x6 == RDiv(x4 * x2, Scale)
    IN  RDiv(720 * Scale - 360 * x2 + 30 * x4 - x6, 720)

\* sin on [0, pi/4]: x - x^3/6 + x^5/120 - x^7/5040
SinQ(a) ==
    LET x2 == RDiv(a * a, Scale)
        x3 == RDiv(x2 * a, Scale)
        x5 == RDiv(x3 * x2, Scale)
        x7 == RDiv(x5 * x2, Scale)
    IN  RDiv(5040 * a - 840 * x3 + 42 * x5 - x7, 5040)

\* cos and sin on [0, pi/2)
CosH(b) == IF b <= QuarterPi THEN CosQ(b) ELSE SinQ(HalfPi - b)

SinH(b) == IF b <= QuarterPi THEN SinQ(b) ELSE CosQ(HalfPi - b)

\* math.cos(a), scaled by Scale
Cos(a) ==
    LET r == a % TwoPi
        q == r \div HalfPi
        b == r % HalfPi
    IN  CASE q = 0 -> CosH(b)
          [] q = 1 -> -SinH(b)
          [] q = 2 -> -CosH(b)
          [] OTHER -> SinH(b)

\* math.sin(a), scaled by Scale
Sin(a) ==
    LET r == a % TwoPi
        q == r \div HalfPi
        b == r % HalfPi
    IN  CASE q = 0 -> SinH(b)
          [] q = 1 -> CosH(b)
          [] q = 2 -> -SinH(b)
          [] OTHER -> -CosH(b)

\* the largest angle a in lo..hi with tan(a) <= v/u, by bisection
RECURSIVE AtanSearch(_, _, _, _)
AtanSearch(v, u, lo, hi) ==
    IF lo >= hi THEN lo
    ELSE LET mid == (lo + hi + 1) \div 2
         IN  IF v * CosQ(mid) >= u * SinQ(mid)
             THEN AtanSearch(v, u, mid, hi)
             ELSE AtanSearch(v, u, lo, mid - 1)

\* atan(v/u) for 0 <= v <= u, u > 0
AtanQ(v, u) ==
    IF v = 0 THEN 0
    ELSE IF v = u THEN QuarterPi
    ELSE AtanSearch(v, u, 0, QuarterPi)

\* math.atan2(dy, dx) in (-pi, pi]; atan2(0, 0) = 0
Atan2Calc(dy, dx) ==
    LET ay == Abs(dy)
        ax == Abs(dx)
        a == IF ay <= ax THEN AtanQ(ay, ax) ELSE HalfPi - AtanQ(ax, ay)
    IN  IF ax = 0 /\ ay = 0 THEN 0
        ELSE IF dx >= 0 THEN (IF dy >= 0 THEN a ELSE -a)
        ELSE (IF dy >= 0 THEN Pi - a ELSE a - Pi)

\* the largest coordinate difference between a cell and a pose
Span == IF GridSize > 10 THEN GridSize ELSE 10

\* math.atan2 tabulated over the coordinate differences (@@ makes the table
\* an explicit one, computed once)
Atan2Table ==
    [d \in (-Span..Span) \X (-Span..Span) |-> Atan2Calc(d[1], d[2])] @@ << >>

\* a slip: the arguments of atan2 exchanged
Atan2Swapped(dy, dx) == Atan2Table[<<dx, dy>>]

Atan2(dy, dx) == Atan2Table[<<dy, dx>>]

\* round(p / q) as Python 3 rounds: to the nearest integer, a tie to the even one
RoundHalfEven(p, q) ==
    LET f == p \div q
        rem == p % q
    IN  IF 2 * rem < q THEN f
        ELSE IF 2 * rem > q THEN f + 1
        ELSE IF f % 2 = 0 THEN f ELSE f + 1

-----------------------------------------------------------------------------
(* get_ranges: ray marching. *)

\* the cell the beam of direction theta + phi reaches at step r
BeamCell(X, phi, r) ==
    <<RoundHalfEven(X[1] * Scale + r * Cos(X[3] + phi), Scale),
      RoundHalfEven(X[2] * Scale + r * Sin(X[3] + phi), Scale)>>

\* a slip: a margin of two cells
NotInMapTwoCells(c, num_rows, num_cols) ==
    c[1] <= 1 \/ c[1] >= num_rows - 2 \/ c[2] <= 1 \/ c[2] >= num_cols - 2

\* "If not in the map": the out-of-map test of get_ranges
NotInMap(c, num_rows, num_cols) ==
    c[1] <= 0 \/ c[1] >= num_rows - 1 \/ c[2] <= 0 \/ c[2] >= num_cols - 1

\* a slip: the obstacle looked up with its indices exchanged
RECURSIVE MarchSwapped(_, _, _, _, _, _, _)
MarchSwapped(tm, num_rows, num_cols, X, phi, r, rm) ==
    IF r > rm THEN rm
    ELSE LET c == BeamCell(X, phi, r)
         IN  IF NotInMap(c, num_rows, num_cols) THEN r
             ELSE IF <<c[2], c[1]>> \in tm THEN r
             ELSE MarchSwapped(tm, num_rows, num_cols, X, phi, r + 1, rm)

\* one beam: the first step r, r+1, ..., rm at which the ray stops, or rm
RECURSIVE March(_, _, _, _, _, _, _)
March(tm, num_rows, num_cols, X, phi, r, rm) ==
    IF r > rm THEN rm
    ELSE LET c == BeamCell(X, phi, r)
         IN  IF NotInMap(c, num_rows, num_cols) THEN r
             ELSE IF c \in tm THEN r
             ELSE March(tm, num_rows, num_cols, X, phi, r + 1, rm)

get_ranges(tm, num_rows, num_cols, X, phis, rm) ==
    [i \in 1..Len(phis) |-> March(tm, num_rows, num_cols, X, phis[i], 1, rm)]

-----------------------------------------------------------------------------
(* inverse_scanner: the inverse sensor model. *)

\* phi = (atan2(j - y, i - x) - theta + pi) % (2 pi) - pi
RelBearing(i, j, X) ==
    ((Atan2(j - X[2], i - X[1]) - X[3] + Pi) % TwoPi) - Pi

\* r^2 = (i - x)^2 + (j - y)^2
RangeSq(i, j, X) == (i - X[1]) * (i - X[1]) + (j - X[2]) * (j - X[2])

\* np.argmin(np.abs(phi - meas_phi)): the first index of the smallest difference
RECURSIVE ArgMinFrom(_, _, _, _)
ArgMinFrom(phi, phis, j, best) ==
    IF j > Len(phis) THEN best
    ELSE IF Abs(phi - phis[j]) < Abs(phi - phis[best])
         THEN ArgMinFrom(phi, phis, j + 1, j)
         ELSE ArgMinFrom(phi, phis, j + 1, best)

ArgMin(phi, phis) == ArgMinFrom(phi, phis, 2, 1)

\* sqrt(d2) > c2 / 2
RangeGreater(d2, c2) == c2 < 0 \/ 4 * d2 > c2 * c2

\* sqrt(d2) < c2 / 2
RangeLess(d2, c2) == c2 > 0 /\ 4 * d2 < c2 * c2

\* r > min(rmax, meas_r[k] + alpha / 2) or abs(phi - meas_phi[k]) > beta / 2
NoInformation(d2, phi, bearing, range, rm, al, be) ==
    \/ RangeGreater(d2, Min(2 * rm, 2 * range + al))
    \/ 2 * Abs(phi - bearing) > be

\* meas_r[k] < rmax and abs(r - meas_r[k]) < alpha / 2
LikelyObject(d2, range, rm, al) ==
    /\ range < rm
    /\ RangeGreater(d2, 2 * range - al)
    /\ RangeLess(d2, 2 * range + al)

\* r < meas_r[k]
LikelyEmpty(d2, range) == RangeLess(d2, 2 * range)

\* the value of cell (i, j), in tenths; 0 is the np.zeros value left untouched
CellValue(i, j, X, phis, ranges, rm, al, be) ==
    LET d2 == RangeSq(i, j, X)
        phi == RelBearing(i, j, X)
        k == ArgMin(phi, phis)
    IN  IF NoInformation(d2, phi, phis[k], ranges[k], rm, al, be) THEN 5
        ELSE IF LikelyObject(d2, ranges[k], rm, al) THEN 7
        ELSE IF LikelyEmpty(d2, ranges[k]) THEN 3
        ELSE 0

Cells(num_rows, num_cols) == (0..(num_rows - 1)) \X (0..(num_cols - 1))

inverse_scanner(num_rows, num_cols, X, phis, ranges, rm, al, be) ==
    [c \in Cells(num_rows, num_cols) |->
        CellValue(c[1], c[2], X, phis, ranges, rm, al, be)]

-----------------------------------------------------------------------------
(* The log-odds update. *)

RECURSIVE Pow(_, _)
Pow(b, n) == IF n = 0 THEN 1 ELSE b * Pow(b, n - 1)

\* a log-odds value: n * ln(7/3), or -inf
Fin(n) == [inf |-> FALSE, n |-> n]

NegInf == [inf |-> TRUE, n |-> 0]

\* np.log(np.divide(p, np.subtract(1, p))) for p in tenths
Logit(p) ==
    CASE p = 0 -> NegInf
      [] p = 3 -> Fin(-1)
      [] p = 5 -> Fin(0)
      [] p = 7 -> Fin(1)

\* a slip: the running log-odds left out of the sum
AddSubForget(a, b, c) ==
    IF a.inf THEN NegInf ELSE Fin(a.n - c.n)

\* a + b - c in floating point, c finite: -inf absorbs
AddSub(a, b, c) ==
    IF a.inf \/ b.inf THEN NegInf ELSE Fin(a.n + b.n - c.n)

\* np.exp(l) as a fraction <<num, den>>
Exp(l) ==
    IF l.inf THEN <<0, 1>>
    ELSE IF l.n >= 0 THEN <<Pow(7, l.n), Pow(3, l.n)>>
    ELSE <<Pow(3, -l.n), Pow(7, -l.n)>>

\* np.divide(np.exp(l), 1 + np.exp(l))
Belief(l) == LET e == Exp(l) IN <<e[1], e[2] + e[1]>>

\* L0 = np.log(np.divide(m, np.subtract(1, m))) for the prior m = 0.5
L0 == Logit(5)

\* a slip: the prior added instead of the running log-odds
UpdateLogOddsFromPrior(inv, lo) ==
    [c \in DOMAIN lo |-> AddSub(Logit(inv[c]), L0, L0)]

\* L = np.log(np.divide(invmod, np.subtract(1, invmod))) + L - L0
UpdateLogOdds(inv, lo) == [c \in DOMAIN lo |-> AddSub(Logit(inv[c]), lo[c], L0)]

\* m = np.divide(np.exp(L), 1 + np.exp(L))
UpdateBelief(lo) == [c \in DOMAIN lo |-> Belief(lo[c])]

-----------------------------------------------------------------------------
(* The state after the set-up cell, for a given configuration. *)

\* m = 0.5 * ones((M, N)); L = L0; no scan yet
Setup(cfg) ==
    /\ M = cfg.M
    /\ N = cfg.N
    /\ true_map = cfg.true_map
    /\ meas_phi = cfg.meas_phi
    /\ rmax = cfg.rmax
    /\ alpha = cfg.alpha
    /\ beta = cfg.beta
    /\ T_MAX = cfg.T_MAX
    /\ x = cfg.x_0
    /\ u_i = 1
    /\ t = 0
    /\ meas_r = << >>
    /\ invmod = << >>
    /\ invmods = << >>
    /\ L = [c \in Cells(cfg.M, cfg.N) |-> L0]
    /\ m = [c \in Cells(cfg.M, cfg.N) |-> <<1, 2>>]
    /\ fused = 0
    /\ pc = "setup"

-----------------------------------------------------------------------------
(* Single scans of bounded scenarios: get_ranges, then inverse_scanner.     *)

Headings == {0, 3000, QuarterPi, HalfPi, 3 * QuarterPi}

BearingLists == {<<0>>, <<-500, 0, 500>>}

ScanPoses == {<<1, 1>>, <<2, 3>>, <<3, 3>>}

\* no obstacle, or one obstacle cell anywhere in the grid
ObstacleSets == {{}} \cup {{c} : c \in Cells(GridSize, GridSize)}

ValidScenarios ==
    [M : {GridSize}, N : {GridSize}, true_map : ObstacleSets,
     meas_phi : BearingLists, rmax : 1..MaxRange, alpha : {1, 2}, beta : {500},
     T_MAX : {1},
     x_0 : {<<p[1], p[2], h>> : p \in ScanPoses, h \in Headings}]

\* configurations with rmax <= 0, alpha <= 0 or beta <= 0 among them
SensorScenarios ==
    [M : {GridSize}, N : {GridSize}, true_map : {{}},
     meas_phi : {<<0>>}, rmax : {-1, 0, 2}, alpha : {-1, 0, 1},
     beta : {-500, 0, 500}, T_MAX : {1}, x_0 : {<<2, 2, 0>>}]

\* an empty bearing list
NoBeamScenario ==
    [M |-> GridSize, N |-> GridSize, true_map |-> {}, meas_phi |-> << >>,
     rmax |-> 2, alpha |-> 1, beta |-> 500, T_MAX |-> 1, x_0 |-> <<2, 2, 0>>]

\* the end-to-end example: grid 10x10, one obstacle at (5,5), pose (5, 0, pi/2),
\* one bearing of 0 rad, rmax = 10, alpha = 1, beta = 0.05
Example ==
    [M |-> 10, N |-> 10, true_map |-> {<<5, 5>>}, meas_phi |-> <<0>>,
     rmax |-> 10, alpha |-> 1, beta |-> 500, T_MAX |-> 1,
     x_0 |-> <<5, 0, HalfPi>>]

Scenarios == ValidScenarios \cup SensorScenarios \cup {NoBeamScenario, Example}

InitScan == \E cfg \in Scenarios : Setup(cfg)

\* meas_r = get_ranges(true_map, x, meas_phi, rmax)
CallGetRanges ==
    /\ pc = "setup"
    /\ meas_r' = get_ranges(true_map, M, N, x, meas_phi, rmax)
    /\ pc' = "ranged"
    /\ UNCHANGED <<config, T_MAX, x, u_i, t, invmod, invmods, L, m, fused>>

\* invmod = inverse_scanner(M, N, x, y, theta, meas_phi, meas_r, rmax, alpha, beta)
CallInverseScanner ==
    /\ pc = "ranged"
    /\ Len(meas_phi) > 0
    /\ invmod' = inverse_scanner(M, N, x, meas_phi, meas_r, rmax, alpha, beta)
    /\ invmods' = Append(invmods, invmod')
    /\ pc' = "classified"
    /\ UNCHANGED <<config, T_MAX, x, u_i, t, meas_r, L, m, fused>>

\* np.argmin of an empty array raises ValueError
InverseScannerRaises ==
    /\ pc = "ranged"
    /\ Len(meas_phi) = 0
    /\ pc' = "ValueError"
    /\ UNCHANGED <<config, T_MAX, x, u_i, t, meas_r, invmod, invmods, L, m, fused>>

NextScan == CallGetRanges \/ CallInverseScanner \/ InverseScannerRaises

Spec == InitScan /\ [][NextScan]_vars

-----------------------------------------------------------------------------
(* Properties of a single scan. *)

Scanned == pc \in {"ranged", "classified"}

ValidSensor == rmax > 0 /\ alpha > 0 /\ beta > 0 /\ Len(meas_phi) > 0

Beams == 1..Len(meas_phi)

\* the cell beam i reaches at step r, from the current pose
CellAt(i, r) == BeamCell(x, meas_phi[i], r)

\* the squared distance from the current pose to cell c
DistSq(c) == (c[1] - x[1]) * (c[1] - x[1]) + (c[2] - x[2]) * (c[2] - x[2])

InGrid(c) == c[1] \in 0..(M - 1) /\ c[2] \in 0..(N - 1)

InsideMargin(c) == 0 < c[1] /\ c[1] < M - 1 /\ 0 < c[2] /\ c[2] < N - 1

\* C1: every cell of the grid returned by inverse_scanner holds 0.3, 0.5 or
\* 0.7 (for rmax, alpha, beta > 0 and a non-empty bearing list); no cell is
\* left at the zero it was allocated with.
C1_EveryCellClassified ==
    (pc = "classified" /\ ValidSensor) =>
        \A c \in DOMAIN invmod : invmod[c] \in {3, 5, 7}

IsExample ==
    /\ M = 10 /\ N = 10 /\ true_map = {<<5, 5>>}
    /\ x = <<5, 0, HalfPi>> /\ meas_phi = <<0>>
    /\ rmax = 10 /\ alpha = 1 /\ beta = 500

\* C3 as claimed: in the end-to-end example ranges[0] = 5, cell (5,5) is 0.7,
\* cells (5,0)..(5,4) are 0.3 and cells (5,6)..(5,9) are 0.5.
C3_ExampleAsClaimed ==
    (IsExample /\ pc = "classified") =>
        /\ meas_r[1] = 5
        /\ invmod[<<5, 5>>] = 7
        /\ \A j \in 0..4 : invmod[<<5, j>>] = 3
        /\ \A j \in 6..9 : invmod[<<5, j>>] = 5

\* C3 amended: in the end-to-end example ranges[0] = 5, cell (5,5) is 0.7,
\* cells (5,1)..(5,4) are 0.3, cells (5,6)..(5,9) are 0.5, and the sensor's
\* own cell (5,0) is 0.5 (atan2(0, 0) = 0 puts it at bearing -pi/2, outside
\* the beam).
C3_Example ==
    (IsExample /\ pc = "classified") =>
        /\ meas_r[1] = 5
        /\ invmod[<<5, 5>>] = 7
        /\ \A j \in 1..4 : invmod[<<5, j>>] = 3
        /\ \A j \in 6..9 : invmod[<<5, j>>] = 5
        /\ invmod[<<5, 0>>] = 5

C3_Witness == IsExample /\ pc = "classified" /\ invmod[<<5, 5>>] = 7

\* beam i meets no obstacle and stays in the grid [0,M) x [0,N)
FreeInGrid(i) ==
    \A r \in 1..rmax : InGrid(CellAt(i, r)) /\ CellAt(i, r) \notin true_map

\* beam i meets no obstacle and stays off the one-cell margin of the grid
FreeInsideMargin(i) ==
    \A r \in 1..rmax : InsideMargin(CellAt(i, r)) /\ CellAt(i, r) \notin true_map

\* C4 as claimed: a beam whose candidate cells for r = 1..rmax all lie in
\* [0,M) x [0,N) and are not obstacles gets the range rmax.
C4_NoObstacleInGrid ==
    (Scanned /\ rmax >= 1) =>
        \A i \in Beams : FreeInGrid(i) => meas_r[i] = rmax

\* C4 amended: a beam whose candidate cells for r = 1..rmax all lie strictly
\* inside the one-cell margin (0 < xi < M-1 and 0 < yi < N-1) and are not
\* obstacles gets the range rmax.
C4_NoObstacleInsideMargin ==
    (Scanned /\ rmax >= 1) =>
        \A i \in Beams : FreeInsideMargin(i) => meas_r[i] = rmax

C4_Witness ==
    /\ Scanned /\ rmax >= 2 /\ true_map # {}
    /\ \E i \in Beams : FreeInsideMargin(i) /\ meas_r[i] = rmax
    /\ \E i \in Beams : ~FreeInsideMargin(i)

\* the ray of beam i stops at step r: its cell is on the margin, outside the
\* grid, or an obstacle
StopsAt(i, r) == ~InsideMargin(CellAt(i, r)) \/ CellAt(i, r) \in true_map

\* beam i first stops at step r0, on an obstacle cell
HitsObstacleAt(i, r0) ==
    /\ CellAt(i, r0) \in true_map
    /\ \A r \in 1..(r0 - 1) : ~StopsAt(i, r)

\* C5 as claimed: when an obstacle cell lies along a beam within rmax, with
\* no other obstacle and no boundary stop nearer, the range is exactly the
\* distance from the pose to that cell, and not rmax.
C5_ExactDistance ==
    Scanned =>
        \A i \in Beams : \A r0 \in 1..rmax :
            HitsObstacleAt(i, r0) =>
                /\ meas_r[i] * meas_r[i] = DistSq(CellAt(i, r0))
                /\ meas_r[i] # rmax

\* C5 amended: the range is the number r0 of unit steps after which the
\* beam's rounded candidate cell first is that obstacle cell; it differs from
\* the distance between the pose and the cell by less than one cell, equals
\* it when the cell is in the pose's row or column, and is below rmax unless
\* the obstacle is reached at the last step r0 = rmax.
C5_StepCount ==
    Scanned =>
        \A i \in Beams : \A r0 \in 1..rmax :
            HitsObstacleAt(i, r0) =>
                LET d2 == DistSq(CellAt(i, r0))
                    c == CellAt(i, r0)
                IN  /\ meas_r[i] = r0
                    /\ (r0 - 1) * (r0 - 1) < d2
                    /\ d2 < (r0 + 1) * (r0 + 1)
                    /\ (c[1] = x[1] \/ c[2] = x[2]) => d2 = r0 * r0
                    /\ r0 < rmax => meas_r[i] # rmax

C5_Witness ==
    /\ Scanned
    /\ \E i \in Beams : \E r0 \in 2..(rmax - 1) :
          /\ HitsObstacleAt(i, r0)
          /\ DistSq(CellAt(i, r0)) # r0 * r0
          /\ meas_r[i] = r0

\* cell c is within the angular width of beam k, its nearest beam
OnBeam(c, k) ==
    /\ ArgMin(RelBearing(c[1], c[2], x), meas_phi) = k
    /\ 2 * Abs(RelBearing(c[1], c[2], x) - meas_phi[k]) <= beta

\* free, then occupied, then unknown
Rank(v) == CASE v = 3 -> 1 [] v = 7 -> 2 [] v = 5 -> 3 [] OTHER -> 0

\* C6: for a beam whose measured range is below rmax, the cells within the
\* beam's angular width, in order of increasing range, are classified first
\* 0.3, then 0.7, then 0.5, and no cell is outside these three classes.
C6_Monotone ==
    (pc = "classified" /\ ValidSensor) =>
        \A k \in Beams : meas_r[k] < rmax =>
            LET on == {c \in DOMAIN invmod : OnBeam(c, k)}
            IN  /\ \A c \in on : invmod[c] \in {3, 5, 7}
                /\ \A c1, c2 \in on :
                      DistSq(c1) < DistSq(c2) =>
                          Rank(invmod[c1]) <= Rank(invmod[c2])

\* the order alone, over the cells that were classified
C6_OrderOfClassified ==
    (pc = "classified" /\ ValidSensor) =>
        \A k \in Beams : meas_r[k] < rmax =>
            LET on == {c \in DOMAIN invmod : OnBeam(c, k) /\ invmod[c] # 0}
            IN  \A c1, c2 \in on :
                    DistSq(c1) < DistSq(c2) =>
                        Rank(invmod[c1]) <= Rank(invmod[c2])

\* C9: a configuration with rmax <= 0, alpha <= 0 or beta <= 0 is rejected:
\* neither get_ranges nor inverse_scanner returns a result for it.
C9_InvalidRejected ==
    (rmax <= 0 \/ alpha <= 0 \/ beta <= 0) => ~Scanned

-----------------------------------------------------------------------------
(* The main simulation loop. *)

\* u = [[3, 0, -3, 0], [0, 3, 0, -3]]: the motion command u[:, k], k = 0..3
u == <<<<3, 0>>, <<0, 3>>, <<-3, 0>>, <<0, -3>>>>

\* w[t] = 0.3: the rotation of the sensor per time step
w == 3000

\* a slip: the lower map boundary tested with < instead of <=
MotionStrict(X, ui) ==
    LET move == <<X[1] + u[ui + 1][1], X[2] + u[ui + 1][2]>>
        still == \/ move[1] >= M - 1
                 \/ move[2] >= N - 1
                 \/ move[1] < 0
                 \/ move[2] < 0
                 \/ move \in true_map
    IN  [x |-> <<IF still THEN X[1] ELSE move[1],
                 IF still THEN X[2] ELSE move[2],
                 (X[3] + w) % TwoPi>>,
         u_i |-> IF still THEN (ui + 1) % 4 ELSE ui]

\* the robot motion of one time step: the pose x[:, t] and the command index
Motion(X, ui) ==
    LET move == <<X[1] + u[ui + 1][1], X[2] + u[ui + 1][2]>>
        still == \/ move[1] >= M - 1
                 \/ move[2] >= N - 1
                 \/ move[1] <= 0
                 \/ move[2] <= 0
                 \/ move \in true_map
    IN  [x |-> <<IF still THEN X[1] ELSE move[1],
                 IF still THEN X[2] ELSE move[2],
                 (X[3] + w) % TwoPi>>,
         u_i |-> IF still THEN (ui + 1) % 4 ELSE ui]

\* the scan of x[:, 0] before the loop: ranges and inverse model are computed
\* and archived (meas_rs, invmods), the prior belief is archived (ms); L and
\* m are not updated
InitialScan ==
    /\ pc = "setup"
    /\ Len(meas_phi) > 0
    /\ meas_r' = get_ranges(true_map, M, N, x, meas_phi, rmax)
    /\ invmod' = inverse_scanner(M, N, x, meas_phi, meas_r', rmax, alpha, beta)
    /\ invmods' = Append(invmods, invmod')
    /\ pc' = "loop"
    /\ UNCHANGED <<config, T_MAX, x, u_i, t, L, m, fused>>

\* one iteration of "for t in range(1, len(time_steps))": motion, scan,
\* inverse model, log-odds update, belief
LoopStep ==
    /\ pc = "loop"
    /\ t + 1 < T_MAX
    /\ LET mo == Motion(x, u_i)
           ranges == get_ranges(true_map, M, N, mo.x, meas_phi, rmax)
           inv == inverse_scanner(M, N, mo.x, meas_phi, ranges, rmax, alpha, beta)
           lo == UpdateLogOdds(inv, L)
       IN  /\ t' = t + 1
           /\ x' = mo.x
           /\ u_i' = mo.u_i
           /\ meas_r' = ranges
           /\ invmod' = inv
           /\ invmods' = Append(invmods, inv)
           /\ L' = lo
           /\ m' = UpdateBelief(lo)
           /\ fused' = fused + 1
    /\ UNCHANGED <<config, T_MAX, pc>>

\* the bearings of the notebook: np.arange(-0.4, 0.4, 0.05)
NotebookBearings == [i \in 1..16 |-> 500 * (i - 1) - 4000]

SimMaps == {{}, {<<3, 3>>}, (4..5) \X (1..2)}

\* the notebook's sensor on a small map, from any free interior cell
SimConfigs ==
    UNION {{[M |-> GridSize, N |-> GridSize, true_map |-> tm,
             meas_phi |-> NotebookBearings, rmax |-> MaxRange, alpha |-> 1,
             beta |-> 500, T_MAX |-> SimSteps, x_0 |-> <<p[1], p[2], 0>>] :
               p \in ((1..(GridSize - 2)) \X (1..(GridSize - 2))) \ tm} :
           tm \in SimMaps}

InitSim == \E cfg \in SimConfigs : Setup(cfg)

NextSim == InitialScan \/ LoopStep

SpecSim == InitSim /\ [][NextSim]_vars

-----------------------------------------------------------------------------
(* A stationary sensor: one scan, fused again and again. *)

\* lines 231-234 applied to the same inverse-model grid
FuseScan ==
    /\ pc = "classified"
    /\ fused < MaxFuse
    /\ L' = UpdateLogOdds(invmod, L)
    /\ m' = UpdateBelief(L')
    /\ fused' = fused + 1
    /\ UNCHANGED <<config, T_MAX, x, u_i, t, meas_r, invmod, invmods, pc>>

StationaryScenarios ==
    [M : {GridSize}, N : {GridSize}, true_map : ObstacleSets,
     meas_phi : {<<-500, 0, 500>>}, rmax : {MaxRange}, alpha : {1},
     beta : {500}, T_MAX : {1}, x_0 : {<<3, 3, 0>>}]

InitStationary == \E cfg \in StationaryScenarios : Setup(cfg)

NextStationary == CallGetRanges \/ CallInverseScanner \/ FuseScan

SpecStationary == InitStationary /\ [][NextStationary]_vars

-----------------------------------------------------------------------------
(* The robot motion of the notebook's own run.  The scan, the inverse model *)
(* and the log-odds update of an iteration read the pose and write neither  *)
(* x nor u_i, so the motion is followed on its own here.                    *)

\* true_map[a:b, c:d] = 1
Block(a, b, c, d) == (a..(b - 1)) \X (c..(d - 1))

NotebookMap ==
    Block(0, 10, 0, 10) \cup Block(30, 35, 40, 45) \cup Block(3, 6, 40, 60)
        \cup Block(20, 30, 25, 29) \cup Block(40, 50, 5, 25)

NotebookConfig ==
    [M |-> 50, N |-> 60, true_map |-> NotebookMap,
     meas_phi |-> NotebookBearings, rmax |-> 30, alpha |-> 1, beta |-> 500,
     T_MAX |-> 150, x_0 |-> <<30, 30, 0>>]

InitDriver == Setup(NotebookConfig)

\* lines 208-215 of one iteration
DriveStep ==
    /\ pc = "setup"
    /\ t + 1 < T_MAX
    /\ t' = t + 1
    /\ x' = Motion(x, u_i).x
    /\ u_i' = Motion(x, u_i).u_i
    /\ UNCHANGED <<config, T_MAX, meas_r, invmod, invmods, L, m, fused, pc>>

NextDriver == DriveStep

SpecDriver == InitDriver /\ [][NextDriver]_vars

-----------------------------------------------------------------------------
(* Properties of the fusion and of the simulation. *)

\* a / b < c / d for fractions <<a, b>>, <<c, d>> with b, d > 0
Less(p, q) == p[1] * q[2] < q[1] * p[2]

\* C2: after any number of simulation steps every cell of the belief grid m
\* is strictly between 0 and 1 and every cell of the log-odds grid L is finite.
C2_BeliefStrictlyBetween ==
    \A c \in DOMAIN m :
        /\ Less(<<0, 1>>, m[c])
        /\ Less(m[c], <<1, 1>>)
        /\ ~L[c].inf

\* one fusion of the stationary sensor's grid: a 0.7 cell's belief grows and
\* its distance to 1 shrinks to at most 3/5 of what it was; a 0.3 cell's
\* belief falls and shrinks to at most 3/5 of what it was; a 0.5 cell stays 0.5
ConvergenceStep ==
    (pc = "classified" /\ fused' = fused + 1) =>
        \A c \in DOMAIN m :
            /\ invmod[c] = 7 =>
                  /\ Less(m[c], m'[c])
                  /\ Less(m'[c], <<1, 1>>)
                  /\ 5 * (m'[c][2] - m'[c][1]) * m[c][2]
                        <= 3 * (m[c][2] - m[c][1]) * m'[c][2]
            /\ invmod[c] = 3 =>
                  /\ Less(m'[c], m[c])
                  /\ Less(<<0, 1>>, m'[c])
                  /\ 5 * m'[c][1] * m[c][2] <= 3 * m[c][1] * m'[c][2]
            /\ invmod[c] = 5 => m'[c] = m[c] /\ m[c] = <<1, 2>>

RECURSIVE Fused(_, _, _)
Fused(c, first, k) ==
    IF k < first THEN L0
    ELSE AddSub(Logit(invmods[k][c]), Fused(c, first, k - 1), L0)

\* C8 as claimed: every time step, the initial step t = 0 included, scans,
\* classifies and fuses, so that after step t the log-odds grid was updated
\* t + 1 times and holds the contribution of every scan of steps 0..t.
C8_EveryScanFused ==
    pc = "loop" =>
        /\ Len(invmods) = t + 1
        /\ fused = t + 1
        /\ \A c \in DOMAIN L : L[c] = Fused(c, 1, t + 1)

\* C8 amended: every time step t >= 1 of the main loop runs get_ranges, then
\* inverse_scanner on those ranges and that step's pose, then the log-odds
\* update with that step's grid, so that the log-odds/belief pair is updated
\* exactly once per loop step and after step t holds the contribution of the
\* scans of steps 1..t; the initial scan of step 0 is taken and classified
\* but never fused.
C8_LoopScansFused ==
    pc = "loop" =>
        /\ Len(invmods) = t + 1
        /\ fused = t
        /\ meas_r = get_ranges(true_map, M, N, x, meas_phi, rmax)
        /\ invmod = inverse_scanner(M, N, x, meas_phi, meas_r, rmax, alpha, beta)
        /\ invmods[t + 1] = invmod
        /\ \A c \in DOMAIN L : L[c] = Fused(c, 2, t + 1) /\ m[c] = Belief(L[c])

C8_Witness ==
    /\ pc = "loop" /\ t >= 3 /\ fused = t
    /\ \E c \in DOMAIN L : ~L[c].inf /\ L[c].n >= 2
    /\ \E c \in DOMAIN L : invmods[1][c] # 5 /\ L[c] = L0

PositionOk ==
    /\ 0 < x[1] /\ x[1] < M - 1
    /\ 0 < x[2] /\ x[2] < N - 1
    /\ <<x[1], x[2]>> \notin true_map

MotionStepOk ==
    t' = t + 1 =>
        LET move == <<x[1] + u[u_i + 1][1], x[2] + u[u_i + 1][2]>>
            ok == /\ 0 < move[1] /\ move[1] < M - 1
                  /\ 0 < move[2] /\ move[2] < N - 1
                  /\ move \notin true_map
        IN  /\ ok => <<x'[1], x'[2]>> = move /\ u_i' = u_i
            /\ ~ok => <<x'[1], x'[2]>> = <<x[1], x[2]>> /\ u_i' = (u_i + 1) % 4
            /\ x'[3] = (x[3] + w) % TwoPi

\* C10: in the notebook's run the position satisfies 0 < x[0,t] < M-1 and
\* 0 < x[1,t] < N-1 at every time step and is not an obstacle cell; a move
\* that would violate this leaves the position unchanged and advances u_i by
\* one modulo 4, while the heading still advances by w[t] modulo 2 pi.
C10_DriverPose == []PositionOk /\ [][MotionStepOk]_vars

\* the robot has just been stopped by the obstacle block true_map[30:35, 40:45]
C10_Witness ==
    /\ t > 0 /\ M = 50 /\ N = 60
    /\ u_i = 2
    /\ <<x[1], x[2] + 3>> \in true_map
    /\ x[3] # 0

=============================================================================
